---- MODULE Spec2Model ----
(***************************************************************************)
(* Model of the hello_triangle sample: the window host of dx_sample.rs     *)
(* (init_sample, wndproc), the Sample of app/hello_triangle.rs             *)
(* (bind_to_window, render, populate_command_list,                         *)
(* wait_for_previous_frame) and the GPU that consumes the command queue.   *)
(* The CPU is one thread; render() runs inside wndproc, so the host        *)
(* position (pc) stands still while the render position (rpc) advances.    *)
(* The GPU executes the queue in submission order, one command at a time,  *)
(* interleaved with the CPU.                                               *)
(***************************************************************************)
EXTENDS Integers, Sequences, FiniteSets, TLC

\* ------------------------------------------------------------------ bounds
\* render() calls on a bound sample that the host may drive
MaxFrames == 3
\* WM_PAINT messages the host may deliver before bind_to_window has returned
MaxEarlyPaints == 1
\* adapters the factory may enumerate
MaxAdapters == 3
\* process arguments
MaxArgs == 2

\* ------------------------------------------------------- program constants
FRAME_COUNT == 2
\* Present(1, 0)
SyncInterval == 1
PresentFlags == 0
\* ExecuteCommandLists(1, ..)
NumCommandLists == 1
\* CreateFence(0, ..) and fence_value = 1
InitialFenceValue == 0
FirstFenceValue == 1

Buffers == 0 .. (FRAME_COUNT - 1)
\* values the device may report for the RTV descriptor stride, and heap starts
DescriptorSizes == {8, 32}
HeapStarts == {4096}

Messages == {"WM_CREATE", "WM_DESTROY", "WM_PAINT", "WM_KEYDOWN", "WM_KEYUP", "WM_OTHER"}

VARIABLES
    pc,              \* position of init_sample
    message,         \* the message being dispatched by the loop
    user_data,       \* GWLP_USERDATA of the window: TRUE once it points to the sample
    quit_posted,     \* PostQuitMessage has been called
    resources,       \* Sample.resources: "None" or "Some"
    frame_index,     \* Resources.frame_index
    fence_value,     \* Resources.fence_value
    fence_event,     \* Resources.fence_event: "valid" or "null" (CreateEventA unchecked)
    rtv_descriptor_size,
    rtv_heap,        \* [base, NumDescriptors, views: slot handle -> buffer]
    render_targets,  \* sequence of the buffers fetched from the swap chain
    command_list,    \* [state: "OPEN" | "CLOSED", cmds: recorded commands]
    swap_chain,      \* [BufferCount, index: current back buffer]
    rt_state,        \* resource state of every back buffer, as the GPU sees it
    fence_completed, \* ID3D12Fence completed value
    event_signaled,  \* the auto-reset event is signaled
    event_regs,      \* values registered with SetEventOnCompletion, not yet fired
    gpuQueue,        \* work submitted to the command queue, not yet finished
    gpu_ip,          \* commands of the head list the GPU has executed
    rpc,             \* position inside render(), "none" outside
    args,            \* std::env::args(): a sequence of arguments, each a sequence of characters
    adapters,        \* what factory.EnumAdapters1(i) yields, i = 0, 1, ..
    use_warp_device, \* SampleCommandLine.use_warp_device
    dpc,             \* position inside SampleCommandLine::default / create_device
    enum_i,          \* the loop index i of get_hardware_adapter
    enumCalls,       \* calls of EnumAdapters1 made so far
    adapter,         \* the adapter create_device selected
    device,          \* Sample.device
    title,           \* the window title passed to CreateWindowExA, in pieces
    vertex_buffer,   \* [Width, read, written]: the upload buffer and the bytes copied
    vbv,             \* Resources.vbv: [StrideInBytes, SizeInBytes]
    pso,             \* Resources.pso: [InputLayout]
    viewport,        \* Resources.viewport: [Width, Height]
    scissor_rect,    \* Resources.scissor_rect: [right, bottom]
    root_signature,  \* Resources.root_signature: "none" or "created"
    displayed,       \* the back buffer on screen, -1 before the first present
    dbg,             \* a MemoryDbgHelper being formatted: [pc, n, amount, level, it, out]
    fence_local,     \* the local `fence` of wait_for_previous_frame
    \* history
    frames,          \* render() calls begun on a bound sample
    a0,              \* frame_index read at bind
    signalLog,       \* values passed to command_queue.Signal, in order
    calls,           \* API calls made by the current / last render()
    bindCalls,       \* calls of bind_to_window
    failed,          \* the API calls that have failed so far
    callbacks,       \* the sample callbacks the last wndproc call invoked, in order
    forwarded,       \* whether the last wndproc call went on to DefWindowProcA
    earlyRenders     \* render() calls made before bind_to_window returned Ok

hostVars == <<pc, message, user_data, quit_posted>>
resVars == <<resources, frame_index, fence_value, fence_event, rtv_descriptor_size,
             rtv_heap, render_targets, vertex_buffer, vbv, pso, viewport,
             scissor_rect, root_signature>>
bootVars == <<args, adapters, use_warp_device, dpc, enum_i, enumCalls, adapter, device,
              title>>
gpuVars == <<rt_state, fence_completed, event_signaled, event_regs, gpuQueue, gpu_ip,
             displayed>>
histVars == <<frames, a0, signalLog, calls, bindCalls, earlyRenders, failed,
              callbacks, forwarded>>
vars == <<pc, message, user_data, quit_posted, resources, frame_index, fence_value,
          fence_event, rtv_descriptor_size, rtv_heap, render_targets, command_list,
          swap_chain, rt_state, fence_completed, event_signaled, event_regs, gpuQueue,
          gpu_ip, rpc, fence_local, frames, a0, signalLog, calls, bindCalls,
          earlyRenders, args, adapters, use_warp_device, dpc, enum_i, enumCalls,
          adapter, device, title, vertex_buffer, vbv, pso, failed, viewport,
          scissor_rect, root_signature, displayed, dbg, callbacks, forwarded>>

\* ---------------------------------------------------------------- helpers
Cmd(op) == [op |-> op, res |-> -1, before |-> "", after |-> "", handle |-> -1]

transition_barrier(resource, state_before, state_after) ==
    [op |-> "ResourceBarrier", res |-> resource, before |-> state_before,
     after |-> state_after, handle |-> -1]

Call(op, a, b) == [op |-> op, a |-> a, b |-> b]

\* an adapter as get_hardware_adapter sees it: the software flag of its
\* descriptor, whether GetDesc1 succeeds, whether the dry-run device creation
\* at feature level 11.0 succeeds
SoftwareAdapter == [software |-> TRUE, desc_ok |-> TRUE, dry_ok |-> TRUE]
HardwareAdapter == [software |-> FALSE, desc_ok |-> TRUE, dry_ok |-> TRUE]
OldHardwareAdapter == [software |-> FALSE, desc_ok |-> TRUE, dry_ok |-> FALSE]
BrokenAdapter == [software |-> FALSE, desc_ok |-> FALSE, dry_ok |-> TRUE]
AdapterKinds == {SoftwareAdapter, HardwareAdapter, OldHardwareAdapter, BrokenAdapter}

\* the adapter create_device holds: none yet, the factory's WARP adapter, or
\* the one EnumAdapters1(i) returned
NoAdapter == [kind |-> "none", index |-> 0]
WarpAdapter == [kind |-> "warp", index |-> 0]
EnumeratedAdapter(i) == [kind |-> "enumerated", index |-> i]

\* Sample.device: the device and the adapter it was created against
NoDevice == [created |-> FALSE, adapter |-> NoAdapter]
DeviceOn(a) == [created |-> TRUE, adapter |-> a]

\* arguments a process may be started with, as sequences of characters
ExeArg == <<"t", "r", "i">>
ArgChoices ==
    {ExeArg,
     <<"-", "w", "a", "r", "p">>,
     <<"/", "W", "A", "R", "P">>,
     <<"-", "W", "a", "R", "p">>,
     <<"w", "a", "r", "p">>,
     <<"-", "w", "a", "r", "p", "s">>,
     <<"\\", "w", "a", "r", "p">>}

SeqsUpTo(S, n) == UNION {[1 .. k -> S] : k \in 0 .. n}
AllArgs == SeqsUpTo(ArgChoices, MaxArgs)
AllAdapters == SeqsUpTo(AdapterKinds, MaxAdapters)
MainArgs == {<<ExeArg>>, <<ExeArg, <<"/", "w", "a", "r", "p">>>>}
MainAdapters == {<<SoftwareAdapter, OldHardwareAdapter, HardwareAdapter>>}

InitBase ==
    /\ pc = "start"
    /\ message = "none"
    /\ user_data = FALSE
    /\ quit_posted = FALSE
    /\ resources = "None"
    /\ frame_index = 0
    /\ fence_value = 0
    /\ fence_event = "null"
    /\ rtv_descriptor_size = 0
    /\ rtv_heap = [base |-> 0, NumDescriptors |-> 0, views |-> <<>>]
    /\ render_targets = <<>>
    /\ command_list = [state |-> "CLOSED", cmds |-> <<>>]
    /\ swap_chain = [BufferCount |-> 0, index |-> 0]
    /\ rt_state = <<>>
    /\ fence_completed = 0
    /\ event_signaled = FALSE
    /\ event_regs = {}
    /\ gpuQueue = <<>>
    /\ gpu_ip = 0
    /\ rpc = "none"
    /\ fence_local = 0
    /\ frames = 0
    /\ a0 = 0
    /\ signalLog = <<>>
    /\ calls = <<>>
    /\ bindCalls = 0
    /\ earlyRenders = 0
    /\ use_warp_device = FALSE
    /\ dpc = "args"
    /\ enum_i = 0
    /\ enumCalls = 0
    /\ adapter = NoAdapter
    /\ device = NoDevice
    /\ title = <<>>
    /\ vertex_buffer = [Width |-> 0, read |-> 0, written |-> 0]
    /\ vbv = [StrideInBytes |-> 0, SizeInBytes |-> 0]
    /\ pso = [InputLayout |-> <<>>]
    /\ failed = {}
    /\ viewport = [Width |-> 0, Height |-> 0]
    /\ scissor_rect = [right |-> 0, bottom |-> 0]
    /\ root_signature = "none"
    /\ displayed = -1
    /\ callbacks = <<>>
    /\ forwarded = FALSE

\* no MemoryDbgHelper is being formatted
DbgIdle == [pc |-> "idle"]

Init ==
    /\ InitBase
    /\ dbg = DbgIdle
    /\ args \in MainArgs
    /\ adapters \in MainAdapters

\* ------------------------------------------------- D3D12 object behaviour
\* ID3D12Device::CreateCommandList returns a list in the recording state
CreateCommandList == [state |-> "OPEN", cmds |-> <<>>]
\* ID3D12GraphicsCommandList::Close / Reset succeed only from OPEN / CLOSED
CanClose(cl) == cl.state = "OPEN"
CanReset(cl) == cl.state = "CLOSED"
ListClose(cl) == [cl EXCEPT !.state = "CLOSED"]
ListReset(cl) == [state |-> "OPEN", cmds |-> <<>>]
Record(cl, c) == [cl EXCEPT !.cmds = Append(@, c)]

\* mutant: render() does not look at resources
RenderGuard_Always == TRUE

\* ------------------------------------------------------ Sample::render entry
\* render(): `if let Some(resources) = &mut self.resources { .. }`
RenderGuard == resources = "Some"

\* update(); render() as called by sample_wndproc on WM_PAINT.  On a bound
\* sample the frame starts (the steps follow below); otherwise it is a no-op.
RenderEnter ==
    IF RenderGuard
    THEN /\ rpc' = "allocator_reset"
         /\ frames' = frames + 1
         /\ calls' = <<>>
         /\ earlyRenders' = earlyRenders
    ELSE /\ earlyRenders' = earlyRenders + 1
         /\ UNCHANGED <<rpc, frames, calls>>

\* mutant: sample_wndproc reports every message as not handled
Handled_Never(m) == FALSE

\* the bool sample_wndproc returns: true for the three messages it matches
Handled(m) == m \in {"WM_KEYDOWN", "WM_KEYUP", "WM_PAINT"}

\* sample_wndproc: WM_KEYDOWN / WM_KEYUP call the (empty) key callbacks,
\* WM_PAINT calls update() and render(), anything else is not handled.
sample_wndproc(m) ==
    CASE m = "WM_KEYDOWN" ->
            /\ callbacks' = <<"on_key_down">>
            /\ UNCHANGED <<rpc, frames, calls, earlyRenders>>
      [] m = "WM_KEYUP" ->
            /\ callbacks' = <<"on_key_up">>
            /\ UNCHANGED <<rpc, frames, calls, earlyRenders>>
      [] m = "WM_PAINT" ->
            /\ callbacks' = <<"update", "render">>
            /\ RenderEnter
      [] OTHER ->
            /\ callbacks' = <<>>
            /\ UNCHANGED <<rpc, frames, calls, earlyRenders>>

\* mutant: WM_DESTROY clears GWLP_USERDATA
AfterDestroy_Cleared == FALSE

\* GWLP_USERDATA after WM_DESTROY: the arm only calls PostQuitMessage(0), the
\* pointer stays as it was
AfterDestroy == user_data

\* wndproc: primes user_data, quit_posted, rpc, frames, calls, earlyRenders,
\* callbacks, forwarded
wndproc(m) ==
    CASE m = "WM_CREATE" ->
            /\ user_data' = TRUE
            /\ callbacks' = <<>>
            /\ forwarded' = FALSE
            /\ UNCHANGED <<quit_posted, rpc, frames, calls, earlyRenders>>
      [] m = "WM_DESTROY" ->
            /\ quit_posted' = TRUE
            /\ user_data' = AfterDestroy
            /\ callbacks' = <<>>
            /\ forwarded' = FALSE
            /\ UNCHANGED <<rpc, frames, calls, earlyRenders>>
      [] OTHER ->
            /\ UNCHANGED <<user_data, quit_posted>>
            /\ IF user_data
               THEN /\ sample_wndproc(m)
                    /\ forwarded' = ~Handled(m)
               ELSE /\ callbacks' = <<>>
                    /\ forwarded' = TRUE
                    /\ UNCHANGED <<rpc, frames, calls, earlyRenders>>

\* whether the host may deliver m now: the model stops driving frames after
\* MaxFrames, and early paints after MaxEarlyPaints
Deliverable(m) ==
    m = "WM_PAINT" =>
        IF resources = "Some" THEN frames < MaxFrames
        ELSE earlyRenders < MaxEarlyPaints

\* ------------------------------------------------ SampleCommandLine::default
UpperCase == <<"A", "B", "C", "D", "E", "F", "G", "H", "I", "J", "K", "L", "M",
               "N", "O", "P", "Q", "R", "S", "T", "U", "V", "W", "X", "Y", "Z">>
LowerCase == <<"a", "b", "c", "d", "e", "f", "g", "h", "i", "j", "k", "l", "m",
               "n", "o", "p", "q", "r", "s", "t", "u", "v", "w", "x", "y", "z">>

\* u8::to_ascii_lowercase: 'A'..'Z' map to 'a'..'z', every other byte to itself
to_ascii_lowercase(c) ==
    IF \E k \in DOMAIN UpperCase : UpperCase[k] = c
    THEN LowerCase[CHOOSE k \in DOMAIN UpperCase : UpperCase[k] = c]
    ELSE c

\* mutant: the comparison is case-sensitive
eq_ignore_ascii_case_Exact(a, b) == a = b

\* str::eq_ignore_ascii_case: same length and bytewise equal after lowering
eq_ignore_ascii_case(a, b) ==
    /\ Len(a) = Len(b)
    /\ \A k \in 1 .. Len(a) : to_ascii_lowercase(a[k]) = to_ascii_lowercase(b[k])

DashWarp == <<"-", "w", "a", "r", "p">>
SlashWarp == <<"/", "w", "a", "r", "p">>

\* the loop over std::env::args(): the flag is set by any matching argument
\* and never cleared
ParsedWarp(as) ==
    \E k \in DOMAIN as :
        \/ eq_ignore_ascii_case(as[k], DashWarp)
        \/ eq_ignore_ascii_case(as[k], SlashWarp)

\* ------------------------------------------------------------ create_device
\* what no step of Sample::new touches
bootStill ==
    /\ UNCHANGED <<message, user_data, quit_posted, args, adapters, title, dbg>>
    /\ UNCHANGED resVars
    /\ UNCHANGED <<command_list, swap_chain, rpc, fence_local>>
    /\ UNCHANGED gpuVars
    /\ UNCHANGED <<frames, a0, signalLog, calls, bindCalls, earlyRenders, callbacks,
                   forwarded>>

\* `?` on the Err of a step of Sample::new: init_sample returns the error
BootFail(step) ==
    /\ pc' = "failed"
    /\ dpc' = "done"
    /\ failed' = failed \cup {step}

\* `let command_line = SampleCommandLine::default()`
ParseCommandLine ==
    /\ pc = "start"
    /\ dpc = "args"
    /\ use_warp_device' = ParsedWarp(args)
    /\ dpc' = "factory"
    /\ UNCHANGED <<pc, enum_i, enumCalls, adapter, device, failed>>
    /\ bootStill

\* mutant: the WARP branch is never taken
WarpSelected_Never == FALSE

\* `if command_line.use_warp_device`
WarpSelected == use_warp_device

\* create_factory()? and the branch on use_warp_device
CreateFactory ==
    /\ pc = "start"
    /\ dpc = "factory"
    /\ \E ok \in BOOLEAN :
        IF ok
        THEN /\ dpc' = IF WarpSelected THEN "warp" ELSE "enum"
             /\ UNCHANGED <<pc, failed>>
        ELSE BootFail("CreateDXGIFactory2")
    /\ UNCHANGED <<use_warp_device, enum_i, enumCalls, adapter, device>>
    /\ bootStill

\* dxgi_factory.EnumWarpAdapter()?
EnumWarpAdapter ==
    /\ pc = "start"
    /\ dpc = "warp"
    /\ \E ok \in BOOLEAN :
        IF ok
        THEN /\ adapter' = WarpAdapter
             /\ dpc' = "create"
             /\ UNCHANGED <<pc, failed>>
        ELSE /\ BootFail("EnumWarpAdapter")
             /\ UNCHANGED adapter
    /\ UNCHANGED <<use_warp_device, enum_i, enumCalls, device>>
    /\ bootStill

\* ----------------------------------------------------- get_hardware_adapter
\* mutant: software adapters are not skipped
SkipSoftware_Never(a) == FALSE

\* `if (desc.Flags & DXGI_ADAPTER_FLAG_SOFTWARE) != NONE { continue; }`
SkipSoftware(a) == a.software

\* D3D12CreateDevice(&adapter, D3D_FEATURE_LEVEL_11_0, null).is_ok()
DryRunOk(a) == a.dry_ok

\* mutant: the loop is left on the enumeration error, reaching unreachable!()
EnumErrorReturns_Break == FALSE

\* `factory.EnumAdapters1(i)?`: the error past the last adapter is returned
EnumErrorReturns == TRUE

\* one iteration of `for i in 0..`
GetHardwareAdapterStep ==
    /\ pc = "start"
    /\ dpc = "enum"
    /\ enumCalls' = enumCalls + 1
    /\ IF enum_i >= Len(adapters)
       THEN /\ IF EnumErrorReturns
               THEN BootFail("EnumAdapters1")
               ELSE /\ pc' = "panicked"
                    /\ dpc' = "unreachable"
                    /\ UNCHANGED failed
            /\ UNCHANGED <<enum_i, adapter>>
       ELSE LET a == adapters[enum_i + 1] IN
            IF ~a.desc_ok
            THEN /\ BootFail("GetDesc1")
                 /\ UNCHANGED <<enum_i, adapter>>
            ELSE IF ~SkipSoftware(a) /\ DryRunOk(a)
            THEN /\ adapter' = EnumeratedAdapter(enum_i)
                 /\ dpc' = "create"
                 /\ UNCHANGED <<pc, enum_i, failed>>
            ELSE /\ enum_i' = enum_i + 1
                 /\ UNCHANGED <<pc, dpc, adapter, failed>>
    /\ UNCHANGED <<use_warp_device, device>>
    /\ bootStill

\* mutant: the commented-out fallback is compiled in
FallbackToWarp_Enabled == TRUE

\* the WARP fallback after a failed D3D12CreateDevice is commented out
FallbackToWarp == FALSE

\* D3D12CreateDevice(adapter, D3D_FEATURE_LEVEL_11_0, &mut device)? and
\* Ok((dxgi_factory, device.unwrap())); S::new(&command_line)? returns
SampleNew ==
    /\ pc = "start"
    /\ dpc = "create"
    /\ dpc' = "done"
    /\ \E ok \in BOOLEAN :
        IF ok
        THEN /\ device' = DeviceOn(adapter)
             /\ pc' = "created"
             /\ UNCHANGED <<adapter, failed>>
        ELSE /\ failed' = failed \cup {"D3D12CreateDevice"}
             /\ IF FallbackToWarp
                THEN /\ adapter' = WarpAdapter
                     /\ device' = DeviceOn(WarpAdapter)
                     /\ pc' = "created"
                ELSE /\ pc' = "failed"
                     /\ UNCHANGED <<adapter, device>>
    /\ UNCHANGED <<use_warp_device, enum_i, enumCalls>>
    /\ bootStill

\* ------------------------------------------------------------- init_sample
DefaultTitle == <<"DXSample">>

\* `if command_line.use_warp_device { title.push_str(" (WARP)") }`
WindowTitle(warp) == IF warp THEN Append(DefaultTitle, " (WARP)") ELSE DefaultTitle

\* the title is formed and CreateWindowExA(.., Some(&mut sample)) is entered
CreateWindowBegin ==
    /\ pc = "created"
    /\ pc' = "creating"
    /\ title' = WindowTitle(use_warp_device)
    /\ UNCHANGED <<args, adapters, use_warp_device, dpc, enum_i, enumCalls, adapter,
                   device, dbg>>
    /\ UNCHANGED <<message, user_data, quit_posted>>
    /\ UNCHANGED resVars
    /\ UNCHANGED <<command_list, swap_chain, rpc, fence_local>>
    /\ UNCHANGED gpuVars
    /\ UNCHANGED histVars

\* the host calls wndproc while CreateWindowExA runs; WM_CREATE comes once,
\* WM_DESTROY only to a window that has had its WM_CREATE
CreateWindowSend ==
    /\ pc = "creating"
    /\ \E m \in Messages :
        /\ m = "WM_CREATE" => ~user_data /\ ~quit_posted
        /\ m = "WM_DESTROY" => user_data
        /\ Deliverable(m)
        /\ message' = m
        /\ wndproc(m)
    /\ UNCHANGED pc
    /\ UNCHANGED resVars
    /\ UNCHANGED bootVars
    /\ UNCHANGED dbg
    /\ UNCHANGED <<command_list, swap_chain, fence_local>>
    /\ UNCHANGED gpuVars
    /\ UNCHANGED <<a0, signalLog, bindCalls, failed>>

\* CreateWindowExA returns, after WM_CREATE has been processed
CreateWindowEnd ==
    /\ pc = "creating"
    /\ user_data
    /\ pc' = "window"
    /\ UNCHANGED <<message, user_data, quit_posted>>
    /\ UNCHANGED resVars
    /\ UNCHANGED bootVars
    /\ UNCHANGED dbg
    /\ UNCHANGED <<command_list, swap_chain, rpc, fence_local>>
    /\ UNCHANGED gpuVars
    /\ UNCHANGED histVars

\* mutant: only the first back buffer is fetched
FetchRenderTargets_One == [i \in {0} |-> i]

\* ---------------------------------------------------- Sample::bind_to_window
\* render_targets[i] = swap_chain.GetBuffer(i) for i in 0 .. FRAME_COUNT-1
FetchRenderTargets == [i \in Buffers |-> i]

\* CPU handle of heap slot i: rtv_handle.ptr + i * rtv_descriptor_size
SlotHandle(base, size, i) == base + i * size

\* CreateRenderTargetView(render_target i, slot i) for every i
CreateViews(base, size) ==
    [h \in {SlotHandle(base, size, i) : i \in Buffers} |->
        CHOOSE i \in Buffers : h = SlotHandle(base, size, i)]

\* mutant: the list is left in the recording state by bind_to_window
BoundCommandList_NotClosed == CreateCommandList

\* CreateCommandList(..) then command_list.Close()
BoundCommandList == ListClose(CreateCommandList)

\* mutant: fence_value starts at the fence's initial value
BoundFenceValue_Zero == InitialFenceValue

\* `let fence_value = 1`
BoundFenceValue == FirstFenceValue

\* ------------------------------------------------------------------- Vertex
\* #[repr(C)] struct Vertex { position: [f32; 3], color: [f32; 4] }
VertexFields == <<[name |-> "position", floats |-> 3],
                  [name |-> "color", floats |-> 4]>>

\* size_of::<f32>()
F32Size == 4

\* repr(C): fields in declaration order; every field has the alignment of f32,
\* so no padding is inserted. OffsetOf(k) is the offset of field k, and of the
\* end of the struct for k = Len(VertexFields) + 1
RECURSIVE OffsetOf(_)
OffsetOf(k) == IF k = 1 THEN 0 ELSE OffsetOf(k - 1) + VertexFields[k - 1].floats * F32Size

\* size_of::<Vertex>()
SizeOfVertex == OffsetOf(Len(VertexFields) + 1)

\* the `vertices` literal holds three Vertex values
VertexCount == 3

\* size_of_val(&vertices)
SizeOfVertices == VertexCount * SizeOfVertex

\* ptr::copy_nonoverlapping::<T>(src, dst, count) copies count * size_of::<T>()
\* bytes
copy_nonoverlapping(size_of_T, count) == count * size_of_T

\* copy_nonoverlapping(vertices.as_ptr(), data as *mut Vertex,
\*                     size_of_val(&vertices))
CopiedBytes == copy_nonoverlapping(SizeOfVertex, SizeOfVertices)

\* create_vertex_buffer: the committed resource and what the copy touched
CreatedVertexBuffer ==
    [Width |-> SizeOfVertices, read |-> CopiedBytes, written |-> CopiedBytes]

\* the D3D12_VERTEX_BUFFER_VIEW returned by create_vertex_buffer
CreatedVbv == [StrideInBytes |-> SizeOfVertex, SizeInBytes |-> SizeOfVertices]

\* mutant: COLOR is declared at offset 16
input_element_descs_ColorAt16 ==
    <<[SemanticName |-> "POSITION", SemanticIndex |-> 0,
       Format |-> "R32G32B32_FLOAT", InputSlot |-> 0, AlignedByteOffset |-> 0,
       InputSlotClass |-> "PER_VERTEX_DATA", InstanceDataStepRate |-> 0],
      [SemanticName |-> "COLOR", SemanticIndex |-> 0,
       Format |-> "R32G32B32A32_FLOAT", InputSlot |-> 0, AlignedByteOffset |-> 16,
       InputSlotClass |-> "PER_VERTEX_DATA", InstanceDataStepRate |-> 0]>>

\* create_pipeline_state: the input layout of the PSO description
input_element_descs ==
    <<[SemanticName |-> "POSITION", SemanticIndex |-> 0,
       Format |-> "R32G32B32_FLOAT", InputSlot |-> 0, AlignedByteOffset |-> 0,
       InputSlotClass |-> "PER_VERTEX_DATA", InstanceDataStepRate |-> 0],
      [SemanticName |-> "COLOR", SemanticIndex |-> 0,
       Format |-> "R32G32B32A32_FLOAT", InputSlot |-> 0, AlignedByteOffset |-> 12,
       InputSlotClass |-> "PER_VERTEX_DATA", InstanceDataStepRate |-> 0]>>

\* DXSample::window_size: (1024, 768)
WindowWidth == 1024
WindowHeight == 768

\* the fallible calls of bind_to_window, in program order
BindSteps ==
    <<"CreateCommandQueue", "CreateSwapChainForHwnd", "MakeWindowAssociation",
      "CreateDescriptorHeap", "GetBuffer", "CreateCommandAllocator",
      "create_root_signature", "D3DCompileFromFile", "CreateGraphicsPipelineState",
      "CreateCommandList", "CreateCommandList.Close", "CreateCommittedResource", "Map", "CreateFence",
      "CreateEventA">>

\* the calls whose result is followed by `?`: all but CreateEventA, whose
\* returned handle is stored as it is
Propagated == {BindSteps[k] : k \in DOMAIN BindSteps} \ {"CreateEventA"}
Unchecked == {BindSteps[k] : k \in DOMAIN BindSteps} \ Propagated

\* bind_to_window: a failing `?` step returns the error and leaves
\* self.resources None; the copy into the mapped buffer runs past both arrays
\* and may fault; a failing unchecked step leaves a null handle in Resources
BindToWindow ==
    /\ pc = "window"
    /\ rpc = "none"
    /\ bindCalls' = bindCalls + 1
    /\ \/ \E f \in Propagated :
          /\ pc' = "bind_failed"
          /\ failed' = failed \cup {f}
          /\ UNCHANGED resVars
          /\ UNCHANGED <<command_list, swap_chain, a0>>
          /\ UNCHANGED gpuVars
       \/ /\ CopiedBytes > SizeOfVertices
          /\ pc' = "panicked"
          /\ failed' = failed \cup {"copy_nonoverlapping"}
          /\ UNCHANGED resVars
          /\ UNCHANGED <<command_list, swap_chain, a0>>
          /\ UNCHANGED gpuVars
       \/ \E idx \in Buffers, size \in DescriptorSizes, base \in HeapStarts,
             u \in SUBSET Unchecked :
          /\ pc' = "bound"
          /\ failed' = failed \cup u
          /\ vertex_buffer' = CreatedVertexBuffer
          /\ vbv' = CreatedVbv
          /\ pso' = [InputLayout |-> input_element_descs]
          /\ viewport' = [Width |-> WindowWidth, Height |-> WindowHeight]
          /\ scissor_rect' = [right |-> WindowWidth, bottom |-> WindowHeight]
          /\ root_signature' = "created"
          /\ swap_chain' = [BufferCount |-> FRAME_COUNT, index |-> idx]
          /\ frame_index' = idx
          /\ a0' = idx
          /\ rtv_descriptor_size' = size
          /\ rtv_heap' = [base |-> base, NumDescriptors |-> FRAME_COUNT,
                          views |-> CreateViews(base, size)]
          /\ render_targets' = FetchRenderTargets
          /\ rt_state' = [i \in Buffers |-> "PRESENT"]
          /\ command_list' = BoundCommandList
          /\ fence_completed' = InitialFenceValue
          /\ fence_value' = BoundFenceValue
          /\ fence_event' = IF "CreateEventA" \in u THEN "null" ELSE "valid"
          /\ event_signaled' = FALSE
          /\ event_regs' = {}
          /\ resources' = "Some"
          /\ UNCHANGED <<gpuQueue, gpu_ip, displayed>>
    /\ UNCHANGED <<message, user_data, quit_posted, rpc, fence_local>>
    /\ UNCHANGED bootVars
    /\ UNCHANGED dbg
    /\ UNCHANGED <<frames, signalLog, calls, earlyRenders, callbacks, forwarded>>

\* init_sample returns the error of bind_to_window
BindError ==
    /\ pc = "bind_failed"
    /\ pc' = "failed"
    /\ UNCHANGED <<message, user_data, quit_posted>>
    /\ UNCHANGED resVars
    /\ UNCHANGED bootVars
    /\ UNCHANGED dbg
    /\ UNCHANGED <<command_list, swap_chain, rpc, fence_local>>
    /\ UNCHANGED gpuVars
    /\ UNCHANGED histVars

\* ShowWindow(hwnd, SW_SHOW); UpdateWindow(hwnd): the host may paint at once
ShowWindow ==
    /\ pc = "bound"
    /\ rpc = "none"
    /\ pc' = "loop"
    /\ \E paint \in BOOLEAN :
        IF paint
        THEN /\ message' = "WM_PAINT"
             /\ wndproc("WM_PAINT")
        ELSE UNCHANGED <<message, user_data, quit_posted, rpc, frames, calls,
                         earlyRenders, callbacks, forwarded>>
    /\ UNCHANGED resVars
    /\ UNCHANGED bootVars
    /\ UNCHANGED dbg
    /\ UNCHANGED <<command_list, swap_chain, fence_local>>
    /\ UNCHANGED gpuVars
    /\ UNCHANGED <<a0, signalLog, bindCalls, failed>>

\* mutant: the loop breaks on WM_DESTROY
BreakOn_Destroy == "WM_DESTROY"

\* `if message.message == WM_QUIT { break; }`
BreakOn == "WM_QUIT"

\* one iteration of the loop that retrieved a message other than WM_QUIT:
\* PeekMessageA, TranslateMessage, DispatchMessageA
LoopDispatch ==
    /\ pc = "loop"
    /\ rpc = "none"
    /\ \E m \in Messages \ {"WM_CREATE"} :
        /\ Deliverable(m)
        /\ message' = m
        /\ wndproc(m)
        /\ pc' = IF m = BreakOn THEN "done" ELSE pc
    /\ UNCHANGED resVars
    /\ UNCHANGED bootVars
    /\ UNCHANGED dbg
    /\ UNCHANGED <<command_list, swap_chain, fence_local>>
    /\ UNCHANGED gpuVars
    /\ UNCHANGED <<a0, signalLog, bindCalls, failed>>

\* the iteration that retrieved WM_QUIT: it is dispatched to no window, the
\* loop breaks and init_sample returns Ok
LoopQuit ==
    /\ pc = "loop"
    /\ rpc = "none"
    /\ quit_posted
    /\ message' = "WM_QUIT"
    /\ pc' = IF "WM_QUIT" = BreakOn THEN "done" ELSE pc
    /\ UNCHANGED <<user_data, quit_posted>>
    /\ UNCHANGED resVars
    /\ UNCHANGED bootVars
    /\ UNCHANGED dbg
    /\ UNCHANGED <<command_list, swap_chain, rpc, fence_local>>
    /\ UNCHANGED gpuVars
    /\ UNCHANGED histVars

\* mutant: Present is called before ExecuteCommandLists
RenderNext_PresentFirst(p) ==
    CASE p = "allocator_reset" -> "list_reset"
      [] p = "list_reset" -> "set_state"
      [] p = "set_state" -> "barrier_rt"
      [] p = "barrier_rt" -> "draw"
      [] p = "draw" -> "barrier_present"
      [] p = "barrier_present" -> "close"
      [] p = "close" -> "present"
      [] p = "present" -> "execute"
      [] p = "execute" -> "signal"
      [] p = "signal" -> "check"
      [] p = "set_event" -> "wait"
      [] p = "wait" -> "refresh"
      [] p = "refresh" -> "none"

\* ------------------------------------------------------------ Sample::render
\* program order of render(): populate_command_list, ExecuteCommandLists,
\* Present, wait_for_previous_frame (the branch after "check" is WaitNeeded)
RenderNext(p) ==
    CASE p = "allocator_reset" -> "list_reset"
      [] p = "list_reset" -> "set_state"
      [] p = "set_state" -> "barrier_rt"
      [] p = "barrier_rt" -> "draw"
      [] p = "draw" -> "barrier_present"
      [] p = "barrier_present" -> "close"
      [] p = "close" -> "execute"
      [] p = "execute" -> "present"
      [] p = "present" -> "signal"
      [] p = "signal" -> "check"
      [] p = "set_event" -> "wait"
      [] p = "wait" -> "refresh"
      [] p = "refresh" -> "none"

Running(p) == rpc = p /\ pc # "panicked"

hostStill == UNCHANGED <<message, user_data, quit_posted, dbg>> /\ UNCHANGED bootVars
boundStill == UNCHANGED <<resources, fence_event, rtv_descriptor_size, rtv_heap,
                          render_targets, vertex_buffer, vbv, pso, viewport,
                          scissor_rect, root_signature>>
histStill == UNCHANGED <<frames, a0, bindCalls, earlyRenders, callbacks, forwarded>>
Logged(op, a, b) == calls' = Append(calls, Call(op, a, b))

\* `.unwrap()` on the Err of a render() call: the thread panics
Unwrap(call) ==
    /\ pc' = "panicked"
    /\ failed' = failed \cup {call}

\* resources.command_allocator.Reset()?  -- an error is unwrapped by render()
AllocatorReset ==
    /\ Running("allocator_reset")
    /\ \E ok \in BOOLEAN :
        IF ok
        THEN /\ rpc' = RenderNext(rpc)
             /\ Logged("AllocatorReset", 0, 0)
             /\ UNCHANGED <<pc, failed>>
        ELSE /\ Unwrap("AllocatorReset")
             /\ UNCHANGED <<rpc, calls>>
    /\ hostStill /\ boundStill /\ histStill
    /\ UNCHANGED <<frame_index, fence_value, command_list, swap_chain,
                   fence_local, signalLog>>
    /\ UNCHANGED gpuVars

\* command_list.Reset(&allocator, &pso)?  -- an error is unwrapped by render()
CommandListReset ==
    /\ Running("list_reset")
    /\ \E ok \in BOOLEAN :
        IF ok /\ CanReset(command_list)
        THEN /\ command_list' = ListReset(command_list)
             /\ rpc' = RenderNext(rpc)
             /\ Logged("ListReset", 0, 0)
             /\ UNCHANGED <<pc, failed>>
        ELSE /\ Unwrap("ListReset")
             /\ UNCHANGED <<command_list, rpc, calls>>
    /\ hostStill /\ boundStill /\ histStill
    /\ UNCHANGED <<frame_index, fence_value, swap_chain, fence_local, signalLog>>
    /\ UNCHANGED gpuVars

\* SetGraphicsRootSignature, RSSetViewports, RSSetScissorRects
RecordState ==
    /\ Running("set_state")
    /\ command_list' = Record(Record(Record(command_list,
            Cmd("SetGraphicsRootSignature")), Cmd("RSSetViewports")),
            Cmd("RSSetScissorRects"))
    /\ rpc' = RenderNext(rpc)
    /\ hostStill /\ boundStill /\ histStill
    /\ UNCHANGED failed
    /\ UNCHANGED <<pc, frame_index, fence_value, swap_chain, fence_local,
                   signalLog, calls>>
    /\ UNCHANGED gpuVars

\* mutant: the opening barrier has its states swapped
BarrierToRenderTarget_Swapped ==
    transition_barrier(render_targets[frame_index], "RENDER_TARGET", "PRESENT")

\* the barrier recorded before the draw
BarrierToRenderTarget ==
    transition_barrier(render_targets[frame_index], "PRESENT", "RENDER_TARGET")

\* mutant: the closing barrier names the other back buffer
BarrierToPresent_OtherBuffer ==
    transition_barrier(render_targets[(frame_index + 1) % FRAME_COUNT],
                       "RENDER_TARGET", "PRESENT")

\* the barrier recorded after the draw
BarrierToPresent ==
    transition_barrier(render_targets[frame_index], "RENDER_TARGET", "PRESENT")

RecordBarrierRT ==
    /\ Running("barrier_rt")
    /\ command_list' = Record(command_list, BarrierToRenderTarget)
    /\ rpc' = RenderNext(rpc)
    /\ hostStill /\ boundStill /\ histStill
    /\ UNCHANGED failed
    /\ UNCHANGED <<pc, frame_index, fence_value, swap_chain, fence_local,
                   signalLog, calls>>
    /\ UNCHANGED gpuVars

\* mutant: the recorder always binds the first slot of the heap
FrameRtvHandle_FirstSlot == SlotHandle(rtv_heap.base, rtv_descriptor_size, 0)

\* heap start + frame_index * rtv_descriptor_size
FrameRtvHandle == SlotHandle(rtv_heap.base, rtv_descriptor_size, frame_index)

\* OMSetRenderTargets, ClearRenderTargetView, IASetPrimitiveTopology,
\* IASetVertexBuffers, DrawInstanced
RecordDraw ==
    /\ Running("draw")
    /\ command_list' =
         Record(Record(Record(Record(Record(command_list,
            [Cmd("OMSetRenderTargets") EXCEPT !.handle = FrameRtvHandle]),
            [Cmd("ClearRenderTargetView") EXCEPT !.handle = FrameRtvHandle]),
            Cmd("IASetPrimitiveTopology")),
            Cmd("IASetVertexBuffers")),
            Cmd("DrawInstanced"))
    /\ rpc' = RenderNext(rpc)
    /\ hostStill /\ boundStill /\ histStill
    /\ UNCHANGED failed
    /\ UNCHANGED <<pc, frame_index, fence_value, swap_chain, fence_local,
                   signalLog, calls>>
    /\ UNCHANGED gpuVars

RecordBarrierPresent ==
    /\ Running("barrier_present")
    /\ command_list' = Record(command_list, BarrierToPresent)
    /\ rpc' = RenderNext(rpc)
    /\ hostStill /\ boundStill /\ histStill
    /\ UNCHANGED failed
    /\ UNCHANGED <<pc, frame_index, fence_value, swap_chain, fence_local,
                   signalLog, calls>>
    /\ UNCHANGED gpuVars

\* command_list.Close() -- an error is unwrapped by render()
CommandListClose ==
    /\ Running("close")
    /\ \E ok \in BOOLEAN :
        IF ok /\ CanClose(command_list)
        THEN /\ command_list' = ListClose(command_list)
             /\ rpc' = RenderNext(rpc)
             /\ Logged("Close", 0, 0)
             /\ UNCHANGED <<pc, failed>>
        ELSE /\ Unwrap("Close")
             /\ UNCHANGED <<command_list, rpc, calls>>
    /\ hostStill /\ boundStill /\ histStill
    /\ UNCHANGED <<frame_index, fence_value, swap_chain, fence_local, signalLog>>
    /\ UNCHANGED gpuVars

Item(kind, cmds, value) == [kind |-> kind, cmds |-> cmds, value |-> value]

\* command_queue.ExecuteCommandLists(1, &Some(command_list))
ExecuteCommandLists ==
    /\ Running("execute")
    /\ gpuQueue' = Append(gpuQueue, Item("list", command_list.cmds, 0))
    /\ rpc' = RenderNext(rpc)
    /\ Logged("ExecuteCommandLists", NumCommandLists, 0)
    /\ hostStill /\ boundStill /\ histStill
    /\ UNCHANGED failed
    /\ UNCHANGED <<pc, frame_index, fence_value, command_list, swap_chain,
                   fence_local, signalLog>>
    /\ UNCHANGED <<displayed, rt_state, fence_completed, event_signaled, event_regs, gpu_ip>>

\* mutant: Present leaves the current back buffer where it was
NextBackBuffer_Same(sc) == sc.index

\* the swap chain's current back buffer after a Present (flip model)
NextBackBuffer(sc) == (sc.index + 1) % sc.BufferCount

\* swap_chain.Present(1, 0).ok().unwrap(): queued behind the submitted list
Present ==
    /\ Running("present")
    /\ \E ok \in BOOLEAN :
        IF ok
        THEN /\ gpuQueue' = Append(gpuQueue, Item("present", <<>>, swap_chain.index))
             /\ swap_chain' = [swap_chain EXCEPT !.index = NextBackBuffer(swap_chain)]
             /\ rpc' = RenderNext(rpc)
             /\ Logged("Present", SyncInterval, PresentFlags)
             /\ UNCHANGED <<pc, failed>>
        ELSE /\ Unwrap("Present")
             /\ UNCHANGED <<gpuQueue, swap_chain, rpc, calls>>
    /\ hostStill /\ boundStill /\ histStill
    /\ UNCHANGED <<frame_index, fence_value, command_list, fence_local,
                   signalLog>>
    /\ UNCHANGED <<displayed, rt_state, fence_completed, event_signaled, event_regs, gpu_ip>>

\* --------------------------------------------------- wait_for_previous_frame
\* the value passed to Signal: `let fence = resources.fence_value`
SignalValue == fence_value

\* mutant: fence_value is not advanced
NextFenceValue_Same == fence_value

\* mutant: fence_value is advanced by two
NextFenceValue_PlusTwo == fence_value + 2

\* `resources.fence_value += 1`
NextFenceValue == fence_value + 1

\* Signal(&fence, fence).ok().unwrap() and `fence_value += 1`
Signal ==
    /\ Running("signal")
    /\ fence_local' = SignalValue
    /\ \E ok \in BOOLEAN :
        IF ok
        THEN /\ gpuQueue' = Append(gpuQueue, Item("signal", <<>>, SignalValue))
             /\ signalLog' = Append(signalLog, SignalValue)
             /\ fence_value' = NextFenceValue
             /\ rpc' = RenderNext(rpc)
             /\ Logged("Signal", SignalValue, 0)
             /\ UNCHANGED <<pc, failed>>
        ELSE /\ Unwrap("Signal")
             /\ UNCHANGED <<gpuQueue, signalLog, fence_value, rpc, calls>>
    /\ hostStill /\ boundStill /\ histStill
    /\ UNCHANGED <<frame_index, command_list, swap_chain>>
    /\ UNCHANGED <<displayed, rt_state, fence_completed, event_signaled, event_regs, gpu_ip>>

\* mutant: the comparison inverted, so the CPU never waits for the GPU
WaitNeeded_Inverted == fence_completed > fence_local

\* `if fence.GetCompletedValue() < fence`
WaitNeeded == fence_completed < fence_local

CheckCompleted ==
    /\ Running("check")
    /\ rpc' = IF WaitNeeded THEN "set_event" ELSE "refresh"
    /\ Logged("GetCompletedValue", fence_completed, 0)
    /\ hostStill /\ boundStill /\ histStill
    /\ UNCHANGED failed
    /\ UNCHANGED <<pc, frame_index, fence_value, command_list, swap_chain,
                   fence_local, signalLog>>
    /\ UNCHANGED gpuVars

\* mutant: the event is registered for the previous frame's value
EventValue_Previous == fence_local - 1

\* the value registered with the event
EventValue == fence_local

\* mutant: a registration for a value already reached is never signaled
AlreadyReached_Never == FALSE

\* the fence has reached the value when the event is registered
AlreadyReached == fence_completed >= EventValue

\* fence.SetEventOnCompletion(fence, fence_event).ok().unwrap(): with a valid
\* event it registers the event, or signals it at once if the value is
\* already reached; with a null handle the call itself blocks until the value
\* is reached
SetEventOnCompletion ==
    /\ Running("set_event")
    /\ \E ok \in BOOLEAN :
        IF ok
        THEN /\ IF fence_event = "valid"
                THEN IF AlreadyReached
                     THEN /\ event_signaled' = TRUE
                          /\ UNCHANGED event_regs
                     ELSE /\ event_regs' = event_regs \cup {EventValue}
                          /\ UNCHANGED event_signaled
                ELSE /\ fence_completed >= EventValue
                     /\ UNCHANGED <<event_signaled, event_regs>>
             /\ rpc' = RenderNext(rpc)
             /\ Logged("SetEventOnCompletion", EventValue, 0)
             /\ UNCHANGED <<pc, failed>>
        ELSE /\ Unwrap("SetEventOnCompletion")
             /\ UNCHANGED <<event_signaled, event_regs, rpc, calls>>
    /\ hostStill /\ boundStill /\ histStill
    /\ UNCHANGED <<frame_index, fence_value, command_list, swap_chain,
                   fence_local, signalLog>>
    /\ UNCHANGED <<displayed, rt_state, fence_completed, gpuQueue, gpu_ip>>

\* mutant: the event is created manual-reset and stays signaled
ManualReset_True == TRUE

\* CreateEventA(None, false, false, None): bManualReset is false
ManualReset == FALSE

\* WaitForSingleObject(fence_event, INFINITE): returns when the auto-reset
\* event is signaled and resets it; on a null handle it fails at once and the
\* result is ignored
WaitForSingleObject ==
    /\ Running("wait")
    /\ IF fence_event = "valid"
       THEN /\ event_signaled
            /\ event_signaled' = ManualReset
            /\ UNCHANGED failed
       ELSE /\ failed' = failed \cup {"WaitForSingleObject"}
            /\ UNCHANGED event_signaled
    /\ rpc' = RenderNext(rpc)
    /\ Logged("WaitForSingleObject", 0, 0)
    /\ hostStill /\ boundStill /\ histStill
    /\ UNCHANGED <<pc, frame_index, fence_value, command_list, swap_chain,
                   fence_local, signalLog>>
    /\ UNCHANGED <<displayed, rt_state, fence_completed, event_regs, gpuQueue, gpu_ip>>

\* mutant: the cached index is not re-read after Present
CurrentBackBufferIndex_Stale == frame_index

\* swap_chain.GetCurrentBackBufferIndex()
CurrentBackBufferIndex == swap_chain.index

\* `resources.frame_index = swap_chain.GetCurrentBackBufferIndex()`; render()
\* returns
RefreshFrameIndex ==
    /\ Running("refresh")
    /\ frame_index' = CurrentBackBufferIndex
    /\ rpc' = RenderNext(rpc)
    /\ Logged("GetCurrentBackBufferIndex", 0, 0)
    /\ hostStill /\ boundStill /\ histStill
    /\ UNCHANGED failed
    /\ UNCHANGED <<pc, fence_value, command_list, swap_chain, fence_local,
                   signalLog>>
    /\ UNCHANGED gpuVars

\* ----------------------------------------------------------------- the GPU
cpuStill == UNCHANGED <<pc, message, user_data, quit_posted, resources, frame_index,
                        fence_value, fence_event, rtv_descriptor_size, rtv_heap,
                        render_targets, command_list, swap_chain, rpc, fence_local>>
            /\ UNCHANGED <<vertex_buffer, vbv, pso, viewport, scissor_rect,
                           root_signature, dbg>>
            /\ UNCHANGED bootVars

QueueHead == gpuQueue[1]

\* the GPU executes the next command of the list at the head of the queue;
\* a transition barrier moves the resource to StateAfter
GpuExecute ==
    /\ gpuQueue # <<>>
    /\ QueueHead.kind = "list"
    /\ IF gpu_ip < Len(QueueHead.cmds)
       THEN LET c == QueueHead.cmds[gpu_ip + 1] IN
            /\ rt_state' = IF c.op = "ResourceBarrier"
                           THEN [rt_state EXCEPT ![c.res] = c.after]
                           ELSE rt_state
            /\ IF gpu_ip + 1 = Len(QueueHead.cmds)
               THEN gpuQueue' = Tail(gpuQueue) /\ gpu_ip' = 0
               ELSE gpu_ip' = gpu_ip + 1 /\ UNCHANGED gpuQueue
       ELSE /\ gpuQueue' = Tail(gpuQueue)
            /\ gpu_ip' = 0
            /\ UNCHANGED rt_state
    /\ cpuStill
    /\ UNCHANGED <<fence_completed, event_signaled, event_regs, displayed>>
    /\ UNCHANGED histVars

\* the queue reaches a present: the display engine takes the buffer
GpuPresent ==
    /\ gpuQueue # <<>>
    /\ QueueHead.kind = "present"
    /\ gpuQueue' = Tail(gpuQueue)
    /\ displayed' = QueueHead.value
    /\ cpuStill
    /\ UNCHANGED <<rt_state, fence_completed, event_signaled, event_regs, gpu_ip>>
    /\ UNCHANGED histVars

\* the queue reaches a signal: the fence takes the value and every event
\* registered for a value now reached is set
GpuSignal ==
    /\ gpuQueue # <<>>
    /\ QueueHead.kind = "signal"
    /\ gpuQueue' = Tail(gpuQueue)
    /\ fence_completed' = QueueHead.value
    /\ LET fired == {r \in event_regs : r <= QueueHead.value} IN
        /\ event_regs' = event_regs \ fired
        /\ event_signaled' = IF fired # {} /\ fence_event = "valid"
                             THEN TRUE ELSE event_signaled
    /\ cpuStill
    /\ UNCHANGED <<rt_state, gpu_ip, displayed>>
    /\ UNCHANGED histVars

Next ==
    \/ ParseCommandLine
    \/ CreateFactory
    \/ EnumWarpAdapter
    \/ GetHardwareAdapterStep
    \/ SampleNew
    \/ CreateWindowBegin
    \/ CreateWindowSend
    \/ CreateWindowEnd
    \/ BindToWindow
    \/ BindError
    \/ ShowWindow
    \/ LoopDispatch
    \/ LoopQuit
    \/ AllocatorReset
    \/ CommandListReset
    \/ RecordState
    \/ RecordBarrierRT
    \/ RecordDraw
    \/ RecordBarrierPresent
    \/ CommandListClose
    \/ ExecuteCommandLists
    \/ Present
    \/ Signal
    \/ CheckCompleted
    \/ SetEventOnCompletion
    \/ WaitForSingleObject
    \/ RefreshFrameIndex
    \/ GpuExecute
    \/ GpuPresent
    \/ GpuSignal

Spec == Init /\ [][Next]_vars

\* Sample::new and the title alone, over every argument list and every
\* adapter list within the bounds
InitBoot ==
    /\ InitBase
    /\ dbg = DbgIdle
    /\ \/ args \in AllArgs /\ adapters \in MainAdapters
       \/ args \in MainArgs /\ adapters \in AllAdapters

NextBoot ==
    \/ ParseCommandLine
    \/ CreateFactory
    \/ EnumWarpAdapter
    \/ GetHardwareAdapterStep
    \/ SampleNew
    \/ CreateWindowBegin

SpecBoot == InitBoot /\ [][NextBoot]_vars

\* the GPU works through its queue, and the thread inside render() keeps
\* running: every step of render() and of the queue that stays possible is
\* taken
Fairness ==
    /\ WF_vars(GpuExecute)
    /\ WF_vars(GpuPresent)
    /\ WF_vars(GpuSignal)
    /\ WF_vars(AllocatorReset)
    /\ WF_vars(CommandListReset)
    /\ WF_vars(RecordState)
    /\ WF_vars(RecordBarrierRT)
    /\ WF_vars(RecordDraw)
    /\ WF_vars(RecordBarrierPresent)
    /\ WF_vars(CommandListClose)
    /\ WF_vars(ExecuteCommandLists)
    /\ WF_vars(Present)
    /\ WF_vars(Signal)
    /\ WF_vars(CheckCompleted)
    /\ WF_vars(SetEventOnCompletion)
    /\ WF_vars(WaitForSingleObject)
    /\ WF_vars(RefreshFrameIndex)

SpecLive == Init /\ [][Next]_vars /\ Fairness

\* ---------------------------------------------------- MemoryDbgHelper::fmt
\* `static LEVELS: &[&str]`
LEVELS == <<"B", "KB", "MB", "GB", "TB", "PB", "EB">>

\* MemoryDbgHelper(pub u64): a value is its 64 bits, bit 0 the lowest
WordBits == 64
\* f64: 53 significant bits (52 stored and the leading one)
MantissaBits == 53
\* 1024.0 is 2^10: dividing by it lowers the exponent by 10
KiloShift == 10

BitIndex == 0 .. WordBits - 1
ManIndex == 0 .. MantissaBits - 1
TopBit == MantissaBits - 1

\* u64 inputs: 2^a - 2^b, c * 2^sh and (c + 1) * 2^sh - 1
Run(a, b) == [i \in BitIndex |-> IF b <= i /\ i < a THEN 1 ELSE 0]
BitOf(c, i) == (c \div (2 ^ i)) % 2
Shifted(c, sh) ==
    [i \in BitIndex |-> IF i >= sh /\ i - sh < KiloShift THEN BitOf(c, i - sh) ELSE 0]
Below(c, sh) ==
    [i \in BitIndex |-> IF i < sh THEN 1
                        ELSE IF i - sh < KiloShift THEN BitOf(c, i - sh) ELSE 0]
SmallAmounts == {1, 9, 10, 99, 100, 1023}
TopAmounts == {1, 9, 10, 15}
DbgInputs ==
    {Run(a, b) : a \in 0 .. WordBits, b \in 0 .. WordBits}
    \cup {Shifted(c, KiloShift * j) : c \in SmallAmounts,
                                      j \in 0 .. Len(LEVELS) - 2}
    \cup {Shifted(c, KiloShift * (Len(LEVELS) - 1)) : c \in TopAmounts}
    \cup {Below(c, KiloShift * j) : c \in SmallAmounts, j \in 1 .. Len(LEVELS) - 2}
    \cup {Below(c, KiloShift * (Len(LEVELS) - 1)) : c \in TopAmounts \ {15}}

IsZero(b) == \A i \in BitIndex : b[i] = 0
Msb(b) == CHOOSE i \in BitIndex : b[i] = 1 /\ \A j \in i + 1 .. WordBits - 1 : b[j] = 0

\* the unsigned value of bits lo .. hi of f
RECURSIVE BitsValue(_, _, _)
BitsValue(f, lo, hi) == IF hi < lo THEN 0 ELSE f[lo] + 2 * BitsValue(f, lo + 1, hi)

\* mantissa + 1, for a mantissa that is not all ones
Increment(m) ==
    LET z == CHOOSE i \in ManIndex : m[i] = 0 /\ \A j \in 0 .. i - 1 : m[j] = 1
    IN  [i \in ManIndex |-> IF i < z THEN 0 ELSE IF i = z THEN 1 ELSE m[i]]

\* a positive f64 is man * 2^(exp - 52) with man[52] = 1
F64(exp, man) == [zero |-> FALSE, exp |-> exp, man |-> man]
F64Zero == [zero |-> TRUE, exp |-> 0, man |-> [i \in ManIndex |-> 0]]

\* `self.0 as f64`: exact up to 53 bits, otherwise rounded to the nearest
\* f64, ties to the even mantissa
as_f64(b) ==
    IF IsZero(b) THEN F64Zero
    ELSE LET t == Msb(b) IN
         IF t <= TopBit
         THEN F64(t, [i \in ManIndex |->
                        IF i >= TopBit - t THEN b[i - (TopBit - t)] ELSE 0])
         ELSE LET sh == t - TopBit
                  kept == [i \in ManIndex |-> b[i + sh]]
                  sticky == \E i \in 0 .. sh - 2 : b[i] = 1
                  up == b[sh - 1] = 1 /\ (sticky \/ kept[0] = 1)
              IN  IF ~up THEN F64(t, kept)
                  ELSE IF \A i \in ManIndex : kept[i] = 1
                  THEN F64(t + 1, [i \in ManIndex |-> IF i = TopBit THEN 1 ELSE 0])
                  ELSE F64(t, Increment(kept))

\* the integer part of an amount below 1024
Whole(x) == BitsValue(x.man, TopBit - x.exp, TopBit)

\* `amount < c` for an integer c of at most 1024 and an amount that is zero
\* or at least 1
LessThan(x, c) == x.zero \/ (x.exp < KiloShift /\ Whole(x) < c)

\* `amount /= 1024.0`: exact, the exponent drops by 10
DivKilo(x) == IF x.zero THEN x ELSE [x EXCEPT !.exp = @ - KiloShift]

\* what no step of fmt touches
dbgStill ==
    /\ UNCHANGED hostVars
    /\ UNCHANGED resVars
    /\ UNCHANGED bootVars
    /\ UNCHANGED gpuVars
    /\ UNCHANGED histVars
    /\ UNCHANGED <<command_list, swap_chain, rpc, fence_local>>

\* `let mut amount = self.0 as f64; let mut level = 0;`
FmtStart ==
    /\ dbg.pc = "start"
    /\ dbg' = [dbg EXCEPT !.pc = "loop", !.amount = as_f64(dbg.n)]
    /\ dbgStill

\* one iteration of `for _ in 0..LEVELS.len()`, or its end
FmtLoop ==
    /\ dbg.pc = "loop"
    /\ IF dbg.it = Len(LEVELS) \/ LessThan(dbg.amount, 1024)
       THEN dbg' = [dbg EXCEPT !.pc = "write"]
       ELSE dbg' = [dbg EXCEPT !.level = @ + 1, !.amount = DivKilo(@), !.it = @ + 1]
    /\ dbgStill

\* the precision of the write! that is taken
Precision(level, amount) ==
    IF level > 0 /\ LessThan(amount, 10) THEN 2
    ELSE IF level > 0 /\ LessThan(amount, 100) THEN 1
    ELSE 0

\* write!(fmt, "{:.p}{}", amount, LEVELS[level]); indexing past the table
\* panics
FmtWrite ==
    /\ dbg.pc = "write"
    /\ IF dbg.level + 1 \in DOMAIN LEVELS
       THEN dbg' = [dbg EXCEPT !.pc = "done",
                               !.out = [precision |-> Precision(dbg.level, dbg.amount),
                                        unit |-> LEVELS[dbg.level + 1]]]
       ELSE dbg' = [dbg EXCEPT !.pc = "done",
                               !.out = [precision |-> -1, unit |-> "panic"]]
    /\ dbgStill

\* a MemoryDbgHelper(n) about to be formatted
DbgStart(n) ==
    [pc |-> "start", n |-> n, amount |-> F64Zero, level |-> 0, it |-> 0,
     out |-> [precision |-> -1, unit |-> ""]]

InitFmt ==
    /\ InitBase
    /\ args = <<ExeArg>>
    /\ adapters = <<>>
    /\ dbg \in {DbgStart(n) : n \in DbgInputs}

NextFmt ==
    \/ FmtStart
    \/ FmtLoop
    \/ FmtWrite

SpecFmt == InitFmt /\ [][NextFmt]_vars

\* ================================================================== claims
IsPrefix(s, t) == Len(s) <= Len(t) /\ \A i \in 1 .. Len(s) : s[i] = t[i]
Last(s) == s[Len(s)]
\* the value passed to the most recent Signal (the fence's initial value if none)
LastSignaled == IF signalLog = <<>> THEN InitialFenceValue ELSE Last(signalLog)
ListsInFlight == {i \in DOMAIN gpuQueue : gpuQueue[i].kind = "list"}

\* C1: at render() entry and when command_allocator.Reset() has just been
\* called, the queue is drained and the fence has reached the value signaled
\* after the most recent ExecuteCommandLists (nothing was submitted before the
\* first frame); at most one command list is ever in flight.
C1_AllocatorResetWhenDrained ==
    /\ rpc \in {"allocator_reset", "list_reset"} =>
          /\ gpuQueue = <<>>
          /\ fence_completed >= LastSignaled
          /\ frames = 1 => signalLog = <<>>
    /\ Cardinality(ListsInFlight) <= 1

C1_Witness ==
    /\ rpc = "list_reset"
    /\ frames = 2
    /\ Len(signalLog) = 1

\* C2: when wait_for_previous_frame is past its wait, on either branch, and
\* after it has returned, the fence's completed value is at least the value
\* this call passed to Signal.
C2_WaitReachesSignaledValue ==
    /\ rpc = "refresh" => fence_completed >= fence_local
    /\ (rpc = "none" /\ frames > 0) => fence_completed >= fence_local

C2_Witness ==
    /\ rpc = "refresh"
    /\ fence_event = "valid"
    /\ Last(calls).op = "WaitForSingleObject"
    /\ fence_local = 2

\* C3: the values passed to Signal are 1, 2, 3, ... in order; the fence is
\* created at 0, and after the k-th render() fence_value is k + 1.
C3_SignalSequence ==
    /\ \A i \in 1 .. Len(signalLog) : signalLog[i] = i
    /\ resources = "Some" =>
          /\ fence_value = Len(signalLog) + 1
          /\ signalLog = <<>> => fence_completed = 0
          /\ rpc = "none" => Len(signalLog) = frames /\ fence_value = frames + 1

C3_Witness ==
    /\ rpc = "none"
    /\ signalLog = <<1, 2>>
    /\ fence_value = 3

\* C4: a closed, recorded command list holds exactly one PRESENT ->
\* RENDER_TARGET barrier on render_targets[frame_index] before
\* OMSetRenderTargets, ClearRenderTargetView and DrawInstanced, exactly one
\* RENDER_TARGET -> PRESENT barrier on the same buffer after them, and no
\* other barrier.
Where(cmds, op) == {i \in DOMAIN cmds : cmds[i].op = op}
FrameWellFormed(cmds, buf) ==
    LET toRT == {i \in DOMAIN cmds :
                    cmds[i] = transition_barrier(buf, "PRESENT", "RENDER_TARGET")}
        toP == {i \in DOMAIN cmds :
                    cmds[i] = transition_barrier(buf, "RENDER_TARGET", "PRESENT")}
        uses == Where(cmds, "OMSetRenderTargets") \cup
                Where(cmds, "ClearRenderTargetView") \cup Where(cmds, "DrawInstanced")
    IN  /\ Cardinality(toRT) = 1
        /\ Cardinality(toP) = 1
        /\ Where(cmds, "ResourceBarrier") = toRT \cup toP
        /\ Where(cmds, "OMSetRenderTargets") # {}
        /\ Where(cmds, "ClearRenderTargetView") # {}
        /\ Where(cmds, "DrawInstanced") # {}
        /\ \A b \in toRT, u \in uses : b < u
        /\ \A b \in toP, u \in uses : u < b

AfterClose == {"execute", "present", "signal", "check", "set_event", "wait", "refresh"}

C4_BarriersBracketDraw ==
    rpc \in AfterClose =>
        /\ command_list.state = "CLOSED"
        /\ FrameWellFormed(command_list.cmds, render_targets[frame_index])

C4_Witness ==
    /\ rpc = "execute"
    /\ frames = 2
    /\ Len(command_list.cmds) = 10

\* C5: the command list is CLOSED when bind_to_window returns and between
\* render() calls, CLOSED when Reset is called and when it is submitted, and
\* OPEN when Close is called.
C5_ListOpenClosed ==
    /\ pc = "bound" => command_list.state = "CLOSED"
    /\ (resources = "Some" /\ rpc = "none") => command_list.state = "CLOSED"
    /\ rpc = "list_reset" => command_list.state = "CLOSED"
    /\ rpc = "close" => command_list.state = "OPEN"
    /\ rpc = "execute" => command_list.state = "CLOSED"

C5_Witness ==
    /\ rpc = "list_reset"
    /\ frames = 1
    /\ command_list.state = "CLOSED"

\* C6: every back buffer is in PRESENT or RENDER_TARGET; when the GPU reaches
\* a recorded barrier the buffer is in the barrier's StateBefore; when the
\* queue reaches a Present every back buffer is in PRESENT; and a buffer
\* changes state only by the GPU executing a recorded barrier on it.
NextCommand == QueueHead.cmds[gpu_ip + 1]
AtCommand == gpuQueue # <<>> /\ QueueHead.kind = "list" /\ gpu_ip < Len(QueueHead.cmds)
AtBarrier == AtCommand /\ NextCommand.op = "ResourceBarrier"

C6_States ==
    /\ \A i \in DOMAIN rt_state : rt_state[i] \in {"PRESENT", "RENDER_TARGET"}
    /\ AtBarrier => rt_state[NextCommand.res] = NextCommand.before
    /\ (gpuQueue # <<>> /\ QueueHead.kind = "present") =>
          \A i \in DOMAIN rt_state : rt_state[i] = "PRESENT"

C6_Step ==
    (resources = "Some" /\ rt_state' # rt_state) =>
        /\ AtBarrier
        /\ rt_state' = [rt_state EXCEPT ![NextCommand.res] = NextCommand.after]

C6_BackBufferStates == [](C6_States) /\ [][C6_Step]_vars

C6_Witness ==
    /\ AtBarrier
    /\ frames = 3
    /\ NextCommand.before = "PRESENT"
    /\ NextCommand.res = a0

\* C7: every render() on a bound sample makes its API calls in program order,
\* once each: allocator and list Reset, Close, ExecuteCommandLists with one
\* list, Present(1, 0), Signal(fence, v), the check of the completed value,
\* the wait only when that value was below v, and the refresh of frame_index.
Ops(cs) == [i \in DOMAIN cs |-> cs[i].op]
OrderNoWait ==
    <<"AllocatorReset", "ListReset", "Close", "ExecuteCommandLists", "Present",
      "Signal", "GetCompletedValue", "GetCurrentBackBufferIndex">>
OrderWait ==
    <<"AllocatorReset", "ListReset", "Close", "ExecuteCommandLists", "Present",
      "Signal", "GetCompletedValue", "SetEventOnCompletion", "WaitForSingleObject",
      "GetCurrentBackBufferIndex">>
Waited(cs) == \E i \in DOMAIN cs : cs[i].op = "WaitForSingleObject"

C7_RenderOrder ==
    resources = "Some" =>
        /\ IsPrefix(Ops(calls), OrderNoWait) \/ IsPrefix(Ops(calls), OrderWait)
        /\ (rpc = "none" /\ frames > 0) => Ops(calls) \in {OrderNoWait, OrderWait}
        /\ \A i \in DOMAIN calls :
            /\ calls[i].op = "ExecuteCommandLists" => calls[i].a = 1
            /\ calls[i].op = "Present" => calls[i].a = 1 /\ calls[i].b = 0
            /\ calls[i].op = "Signal" => calls[i].a = frames
            /\ calls[i].op = "SetEventOnCompletion" =>
                  calls[i].a = frames /\ calls[i - 1].a < frames
            /\ calls[i].op = "GetCurrentBackBufferIndex" =>
                  (Waited(calls) \/ calls[i - 1].a >= frames)

C7_Witness ==
    /\ rpc = "none"
    /\ frames = 2
    /\ Ops(calls) = OrderWait

\* C8: with a two-buffer swap chain whose index advances by one modulo 2 on
\* each Present, frame_index after k render() calls is (a + k) mod 2, a being
\* the index read at bind; during the k-th render() it is still (a + k - 1) mod 2
\* until the refresh.
C8_FrameIndexToggles ==
    resources = "Some" =>
        /\ rpc = "none" => frame_index = (a0 + frames) % 2
        /\ rpc # "none" => frame_index = (a0 + frames - 1) % 2

C8_Witness ==
    /\ rpc = "none"
    /\ frames = 2
    /\ a0 = 1
    /\ frame_index = 1

\* C9 (as stated): bind_to_window is called exactly once, after Sample::new
\* and before the first render(); no render() runs before bind_to_window has
\* returned successfully.
BeforeBind == {"start", "created", "creating", "window"}
AfterBind == {"bind_failed", "bound", "loop", "done", "panicked"}

C9_NoRenderBeforeBind ==
    /\ bindCalls <= 1
    /\ pc \in AfterBind => bindCalls = 1
    /\ earlyRenders = 0

\* C9 (amended): bind_to_window is called exactly once, after Sample::new;
\* a WM_PAINT that reaches wndproc after WM_CREATE and before bind_to_window
\* has returned does call render(), which finds resources None and does
\* nothing: no frame is started, recorded, submitted, presented or signaled
\* before bind_to_window has returned successfully.
C9_NoFrameBeforeBind ==
    /\ bindCalls <= 1
    /\ pc \in BeforeBind => bindCalls = 0
    /\ pc \in AfterBind => bindCalls = 1
    /\ resources = "None" =>
          /\ frames = 0
          /\ rpc = "none"
          /\ calls = <<>>
          /\ signalLog = <<>>
          /\ gpuQueue = <<>>
    /\ frames > 0 => bindCalls = 1

C9_Witness ==
    /\ earlyRenders = 1
    /\ pc = "loop"
    /\ frames = 1
    /\ rpc = "none"

\* C10: immediately after a successful bind_to_window, resources is
\* populated, the swap chain and the RTV heap have FRAME_COUNT = 2 entries,
\* render_targets holds 2 buffers, the fence's completed value is 0,
\* fence_value is 1 and frame_index is 0 or 1.
C10_AfterBind ==
    pc = "bound" =>
        /\ resources = "Some"
        /\ FRAME_COUNT = 2
        /\ swap_chain.BufferCount = 2
        /\ rtv_heap.NumDescriptors = 2
        /\ Cardinality(DOMAIN rtv_heap.views) = 2
        /\ Cardinality(DOMAIN render_targets) = 2
        /\ \A i \in DOMAIN render_targets : render_targets[i] = i
        /\ fence_completed = 0
        /\ fence_value = 1
        /\ frame_index \in {0, 1}
        /\ frame_index = swap_chain.index

C10_Witness ==
    /\ pc = "bound"
    /\ resources = "Some"
    /\ frame_index = 1

\* the fallible calls of Sample::new (create_device, get_hardware_adapter)
NewSteps == {"CreateDXGIFactory2", "EnumWarpAdapter", "EnumAdapters1", "GetDesc1",
             "D3D12CreateDevice"}
BootstrapSteps == NewSteps \cup Propagated \cup Unchecked

\* C11: if any bootstrap step fails (adapter selection, device creation,
\* queue, swap chain, window association, descriptor heap, back-buffer fetch,
\* allocator, root signature, shader compile, PSO, command list create/close,
\* vertex buffer create/map, fence creation, fence-event creation), then
\* bind_to_window (or Sample::new) returns an error, resources stays None and
\* init_sample returns that error without showing the window or entering the
\* message loop, so no frame is ever rendered.
C11_BootstrapFailureAborts ==
    failed \cap BootstrapSteps # {} =>
        /\ pc \in {"failed", "bind_failed"}
        /\ resources = "None"
        /\ frames = 0
        /\ gpuQueue = <<>>

\* the fallible calls of render(), wait_for_previous_frame included
RenderCalls == {"AllocatorReset", "ListReset", "Close", "Present", "Signal",
                "SetEventOnCompletion", "WaitForSingleObject"}

\* C12: any failure inside render() (allocator or list Reset, Close, Present,
\* queue.Signal, SetEventOnCompletion, or the blocking wait on the fence
\* event) is fatal: the process stops, and no later step of that frame and no
\* later frame is recorded or submitted after the failure.
C12_RenderFailureFatal ==
    failed \cap RenderCalls # {} => pc = "panicked"

\* the commands of a list that carry a descriptor handle
Bound(cmds) == Where(cmds, "OMSetRenderTargets") \cup Where(cmds, "ClearRenderTargetView")
\* render() positions at which frame_index is still the index the list was
\* recorded for
Recorded == {"barrier_present", "close", "execute", "present", "signal", "check",
             "set_event", "wait", "refresh"}

\* C13: for every i in {0, 1}, the RTV created at bind time for back buffer i
\* is written at heap_base + i * rtv_descriptor_size, and the handle the
\* frame recorder binds and clears is heap_base + frame_index *
\* rtv_descriptor_size with the same stride; hence the render target bound in
\* a frame is the view of render_targets[frame_index], the buffer the frame's
\* barriers transition.
C13_RtvHandleMath ==
    resources = "Some" =>
        /\ DOMAIN rtv_heap.views =
              {rtv_heap.base + i * rtv_descriptor_size : i \in {0, 1}}
        /\ \A i \in {0, 1} :
              rtv_heap.views[rtv_heap.base + i * rtv_descriptor_size] = render_targets[i]
        /\ \A k \in Bound(command_list.cmds) :
              LET h == command_list.cmds[k].handle IN
              /\ h \in DOMAIN rtv_heap.views
              /\ rpc \in Recorded =>
                    /\ h = rtv_heap.base + frame_index * rtv_descriptor_size
                    /\ rtv_heap.views[h] = render_targets[frame_index]
              /\ \A b \in Where(command_list.cmds, "ResourceBarrier") :
                    command_list.cmds[b].res = rtv_heap.views[h]

C13_Witness ==
    /\ rpc = "close"
    /\ frame_index = 1
    /\ rtv_descriptor_size = 32
    /\ Bound(command_list.cmds) # {}
    /\ Cardinality(Where(command_list.cmds, "ResourceBarrier")) = 2

\* C14: create_vertex_buffer copies exactly the 84 bytes of the three-vertex
\* literal into the mapped buffer: the number of bytes read from the vertices
\* array and written to the mapped pointer equals the buffer Width, equals
\* vbv.SizeInBytes, equals 3 * StrideInBytes (3 * 28), and no byte outside
\* the source array is read nor outside the 84-byte buffer written.
C14_CopiesExactly84Bytes ==
    resources = "Some" =>
        /\ vertex_buffer.Width = 84
        /\ vbv.SizeInBytes = 84
        /\ vbv.StrideInBytes = 28
        /\ vbv.SizeInBytes = 3 * vbv.StrideInBytes
        /\ vertex_buffer.read = vertex_buffer.Width
        /\ vertex_buffer.written = vertex_buffer.Width
        /\ vertex_buffer.read <= SizeOfVertices
        /\ vertex_buffer.written <= vertex_buffer.Width

\* adapter number i (from 0) of the list the factory enumerates
AdapterAt(i) == adapters[i + 1]
\* an adapter get_hardware_adapter may return
Qualifies(a) == ~a.software /\ a.dry_ok
\* the enumeration can get as far as index i: every descriptor before it reads
Readable(i) == \A j \in 0 .. i - 1 : AdapterAt(j).desc_ok

\* C15: for every finite adapter list, when get_hardware_adapter succeeds it
\* returns the lowest-index adapter that both lacks the software flag and
\* passes the feature-level 11.0 dry-run device creation; it never returns an
\* adapter whose flags include the software bit, and it skips (does not stop
\* at) non-software adapters whose dry run fails.
C15_FirstQualifyingAdapter ==
    /\ adapter.kind = "enumerated" =>
          /\ adapter.index < Len(adapters)
          /\ ~AdapterAt(adapter.index).software
          /\ Qualifies(AdapterAt(adapter.index))
          /\ \A j \in 0 .. adapter.index - 1 : ~Qualifies(AdapterAt(j))
    /\ \A i \in 0 .. Len(adapters) - 1 :
          (/\ dpc \in {"create", "done"}
           /\ ~use_warp_device
           /\ "CreateDXGIFactory2" \notin failed
           /\ Qualifies(AdapterAt(i)) /\ AdapterAt(i).desc_ok
           /\ Readable(i))
          => adapter.kind = "enumerated" /\ adapter.index <= i

C15_Witness ==
    /\ adapter = EnumeratedAdapter(2)
    /\ Len(adapters) = 3
    /\ AdapterAt(0) = SoftwareAdapter
    /\ AdapterAt(1) = OldHardwareAdapter

\* C16: if no enumerated adapter qualifies (all are software or fail the dry
\* run, or the list is empty), get_hardware_adapter terminates with an error
\* once enumeration runs past the last adapter, never loops forever and never
\* reaches unreachable!(); create_device propagates that error without
\* retrying and without creating a device.
C16_NoAdapterIsAnError ==
    /\ dpc # "unreachable"
    /\ pc # "panicked"
    /\ enum_i <= Len(adapters)
    /\ enumCalls <= Len(adapters) + 1
    /\ "EnumAdapters1" \in failed =>
          /\ \A i \in 0 .. Len(adapters) - 1 : ~Qualifies(AdapterAt(i))
          /\ enum_i = Len(adapters)
          /\ enumCalls = Len(adapters) + 1
          /\ pc = "failed"
          /\ adapter = NoAdapter
          /\ device = NoDevice
    /\ (/\ dpc \in {"create", "done"}
        /\ ~use_warp_device
        /\ "CreateDXGIFactory2" \notin failed
        /\ Readable(Len(adapters))
        /\ \A i \in 0 .. Len(adapters) - 1 : ~Qualifies(AdapterAt(i)))
       => "EnumAdapters1" \in failed

C16_Witness ==
    /\ "EnumAdapters1" \in failed
    /\ adapters = <<SoftwareAdapter, OldHardwareAdapter>>
    /\ enumCalls = 3
    /\ pc = "failed"

FormatBytes(format) ==
    CASE format = "R32G32B32_FLOAT" -> 12
      [] format = "R32G32B32A32_FLOAT" -> 16

\* C19: the PSO input layout has exactly two per-vertex slot-0 elements in
\* this order: POSITION (R32G32B32_FLOAT, offset 0) then COLOR
\* (R32G32B32A32_FLOAT, offset 12), and these agree with the Vertex struct
\* uploaded by create_vertex_buffer: position occupies bytes 0..12, color
\* bytes 12..28, and 28 equals vbv.StrideInBytes.
C19_InputLayoutMatchesVertex ==
    resources = "Some" =>
        LET layout == pso.InputLayout IN
        /\ Len(layout) = 2
        /\ \A k \in 1 .. 2 :
              /\ layout[k].InputSlot = 0
              /\ layout[k].InputSlotClass = "PER_VERTEX_DATA"
              /\ layout[k].AlignedByteOffset = OffsetOf(k)
              /\ layout[k].AlignedByteOffset + FormatBytes(layout[k].Format)
                    = OffsetOf(k + 1)
        /\ layout[1].SemanticName = "POSITION"
        /\ layout[1].Format = "R32G32B32_FLOAT"
        /\ layout[1].AlignedByteOffset = 0
        /\ layout[2].SemanticName = "COLOR"
        /\ layout[2].Format = "R32G32B32A32_FLOAT"
        /\ layout[2].AlignedByteOffset = 12
        /\ VertexFields[1].name = "position" /\ OffsetOf(1) = 0 /\ OffsetOf(2) = 12
        /\ VertexFields[2].name = "color" /\ OffsetOf(3) = 28
        /\ vbv.StrideInBytes = 28

C19_Witness ==
    /\ pc = "bound"
    /\ resources = "Some"
    /\ Len(pso.InputLayout) = 2
    /\ vbv.StrideInBytes = 28

\* every spelling of the flag: "-warp" or "/warp" in any mix of cases
WarpSpellings ==
    {<<d, w, a, r, p>> : d \in {"-", "/"}, w \in {"w", "W"}, a \in {"a", "A"},
                         r \in {"r", "R"}, p \in {"p", "P"}}

\* C20: SampleCommandLine::default() sets use_warp_device to true if and only
\* if at least one process argument equals "-warp" or "/warp" ignoring ASCII
\* case (whole-argument match, any position); and init_sample appends
\* " (WARP)" to the window title if and only if use_warp_device is true.
C20_WarpFlagAndTitle ==
    /\ dpc # "args" =>
          (use_warp_device <=> \E k \in DOMAIN args : args[k] \in WarpSpellings)
    /\ title # <<>> =>
          /\ use_warp_device => title = <<"DXSample", " (WARP)">>
          /\ ~use_warp_device => title = <<"DXSample">>

C20_Witness ==
    /\ args = <<ExeArg, <<"-", "W", "a", "R", "p">>>>
    /\ use_warp_device
    /\ title = <<"DXSample", " (WARP)">>

\* the number of exact divisions by 1024 that bring n below 1024
ExactLevel(b) == IF IsZero(b) THEN 0 ELSE Msb(b) \div 10
\* the integer part of n / 1024^k for k = ExactLevel(n)
ExactWhole(b) ==
    LET lo == 10 * ExactLevel(b)
        hi == IF lo + 9 < 64 THEN lo + 9 ELSE 63
    IN  BitsValue(b, lo, hi)
MaxU64 == Run(64, 0)

\* C21: for every u64 n, MemoryDbgHelper prints the unit LEVELS[k] where k is
\* the number of divisions by 1024 needed to bring n below 1024; k never
\* exceeds 6 for any u64 (the 7-entry unit table is never indexed out of
\* bounds and u64::MAX prints in EB), and the number is printed with 0
\* decimals when k = 0 and otherwise with 2, 1 or 0 decimals when the scaled
\* amount is < 10, < 100, or >= 100.
C21_UnitAndDecimals ==
    dbg.pc = "done" =>
        LET k == ExactLevel(dbg.n) IN
        /\ dbg.level <= 6
        /\ dbg.out.unit # "panic"
        /\ dbg.level = k
        /\ dbg.out.unit = LEVELS[k + 1]
        /\ dbg.n = MaxU64 => dbg.out.unit = "EB"
        /\ dbg.out.precision =
              IF k = 0 THEN 0
              ELSE IF ExactWhole(dbg.n) < 10 THEN 2
              ELSE IF ExactWhole(dbg.n) < 100 THEN 1
              ELSE 0

\* the calls of the current render() that can suspend the thread
Blocking == Where(calls, "WaitForSingleObject")
\* the completed value the current render() read
CheckedValue == calls[CHOOSE k \in Where(calls, "GetCompletedValue") : TRUE].a

C22_BlocksAtMostOnce ==
    /\ Cardinality(Blocking) <= 1
    /\ Cardinality(Where(calls, "SetEventOnCompletion")) <= 1
    /\ Blocking # {} =>
          /\ Where(calls, "GetCompletedValue") # {}
          /\ CheckedValue < fence_local
    /\ rpc \in {"set_event", "wait"} => CheckedValue < fence_local

\* C22: assuming the GPU eventually executes every item submitted to the
\* queue and that SetEventOnCompletion signals the event immediately if the
\* fence has already reached the value, every render() call eventually
\* returns (unless a call fails and the thread panics): the infinite-timeout
\* wait cannot block forever, including when the GPU reaches v between the
\* GetCompletedValue check and the event registration; and the CPU blocks at
\* most once per frame, only when the completed value was < v.
C22_RenderReturns ==
    /\ [](C22_BlocksAtMostOnce)
    /\ (rpc # "none") ~> (rpc = "none" \/ pc = "panicked")
    /\ (rpc \in {"wait", "refresh"}) ~> (rpc = "none")

\* the GPU reached v after the check and before the registration
C22_Witness ==
    /\ rpc = "set_event"
    /\ fence_event = "valid"
    /\ fence_completed = fence_local
    /\ CheckedValue < fence_local

PopulateSteps == {"allocator_reset", "list_reset", "set_state", "barrier_rt",
                  "draw", "barrier_present", "close"}

\* the back buffers named by the barriers of a recorded list
Targets(cmds) == {cmds[k].res : k \in {j \in DOMAIN cmds : cmds[j].op = "ResourceBarrier"}}

C24_WhilePopulating ==
    /\ resources = "Some" /\ rpc \in PopulateSteps =>
          /\ frame_index = swap_chain.index
          /\ displayed # frame_index
    /\ gpuQueue # <<>> /\ QueueHead.kind = "list" =>
          displayed \notin Targets(QueueHead.cmds)

C24_PresentStep ==
    rpc = "present" /\ rpc' = "signal" =>
        /\ gpuQueue' = Append(gpuQueue, Item("present", <<>>, frame_index))
        /\ Targets(command_list.cmds) = {frame_index}

C24_IndexWriters ==
    resources = "Some" =>
        /\ swap_chain' # swap_chain => rpc = "present" /\ rpc' = "signal"
        /\ frame_index' # frame_index =>
              /\ rpc = "refresh"
              /\ frame_index' = swap_chain.index

\* C24: whenever populate_command_list runs, the cached frame_index equals
\* the swap chain's current back-buffer index (it is read at bind and re-read
\* after every Present, and Present is the only operation that changes the
\* swap chain's index), so the buffer a frame draws into is the buffer that
\* frame's Present displays and is never the one currently on screen.
C24_FrameIndexIsCurrent ==
    /\ [](C24_WhilePopulating)
    /\ [][C24_PresentStep /\ C24_IndexWriters]_vars

\* the third frame is being recorded while the second one is on screen
C24_Witness ==
    /\ resources = "Some"
    /\ rpc = "draw"
    /\ frames = 3
    /\ displayed = (frame_index + 1) % FRAME_COUNT
    /\ frame_index = a0

\* C25: the auto-reset fence event is unsignaled and has no outstanding
\* completion registration at the start and at the end of every render(): a
\* registration is made only on the path that then waits, each registration
\* produces exactly one signal, and that signal is consumed by the wait of
\* the same frame, so a signal left over from frame k can never satisfy the
\* wait of frame k+1.
C25_EventQuietBetweenFrames ==
    resources = "Some" =>
        /\ rpc \in {"none", "allocator_reset"} =>
              ~event_signaled /\ event_regs = {}
        /\ event_signaled \/ event_regs # {} => rpc = "wait"
        /\ ~(event_signaled /\ event_regs # {})
        /\ event_regs \subseteq {fence_local}
        /\ event_signaled => fence_completed = fence_local
        /\ Cardinality(Where(calls, "SetEventOnCompletion"))
              >= Cardinality(Where(calls, "WaitForSingleObject"))

\* the second frame's wait is about to consume the signal of its own value
C25_Witness ==
    /\ resources = "Some"
    /\ rpc = "wait"
    /\ frames = 2
    /\ event_signaled
    /\ fence_local = 2

\* a step in which wndproc has processed a message
Delivered ==
    /\ <<message, callbacks, forwarded, frames, earlyRenders, user_data,
         quit_posted>>' #
       <<message, callbacks, forwarded, frames, earlyRenders, user_data,
         quit_posted>>
    /\ message' # "WM_QUIT"

\* render() is entered in this step
RenderInvoked == frames' # frames \/ earlyRenders' # earlyRenders

C26_PaintAndKeys ==
    Delivered /\ user_data =>
        /\ message' = "WM_PAINT" =>
              /\ callbacks' = <<"update", "render">>
              /\ ~forwarded'
              /\ frames' + earlyRenders' = frames + earlyRenders + 1
        /\ message' = "WM_KEYDOWN" => callbacks' = <<"on_key_down">>
        /\ message' = "WM_KEYUP" => callbacks' = <<"on_key_up">>

C26_OnlyPaintRenders ==
    RenderInvoked =>
        /\ Delivered
        /\ message' = "WM_PAINT"
        /\ user_data

\* C26 (as stated): for every message reaching wndproc while the
\* back-pointer is installed, WM_PAINT invokes update() and then render()
\* once each and DefWindowProc is not called; WM_KEYDOWN and WM_KEYUP invoke
\* only on_key_down / on_key_up; every other message invokes no sample
\* callback and is forwarded to DefWindowProc; render() is invoked by nothing
\* other than WM_PAINT.
C26_EveryOtherForwarded ==
    [][/\ C26_PaintAndKeys
       /\ C26_OnlyPaintRenders
       /\ Delivered /\ user_data /\ ~Handled(message') =>
              callbacks' = <<>> /\ forwarded']_vars

\* C26 (amended): as above, except that WM_CREATE and WM_DESTROY are answered
\* by wndproc itself: they invoke no sample callback and are not forwarded to
\* DefWindowProc.
C26_Dispatch ==
    [][/\ C26_PaintAndKeys
       /\ C26_OnlyPaintRenders
       /\ Delivered /\ user_data /\ ~Handled(message') =>
              /\ callbacks' = <<>>
              /\ forwarded' = (message' \notin {"WM_CREATE", "WM_DESTROY"})]_vars

\* WM_DESTROY has been answered on an installed pointer without DefWindowProc
C26_Witness ==
    /\ message = "WM_DESTROY"
    /\ user_data
    /\ pc = "loop"
    /\ frames = 1
    /\ ~forwarded
    /\ callbacks = <<>>

C27_Exited ==
    /\ pc = "done" <=> message = "WM_QUIT"
    /\ message = "WM_QUIT" => quit_posted
    /\ pc = "done" => rpc = "none" /\ gpuQueue = <<>>

C27_LoopSteps ==
    /\ quit_posted' # quit_posted => message' = "WM_DESTROY" /\ quit_posted'
    /\ Delivered /\ message' = "WM_DESTROY" => quit_posted'
    /\ pc = "loop" /\ message' # message =>
          \/ message' = "WM_QUIT" /\ pc' = "done" /\ UNCHANGED <<callbacks, forwarded>>
          \/ /\ pc' = "loop"
             /\ forwarded' \/ callbacks' # <<>> \/ message' = "WM_DESTROY"
    /\ pc' = "done" /\ pc # "done" => pc = "loop" /\ message' = "WM_QUIT"
    /\ pc = "done" => UNCHANGED vars

\* C27: the message loop of init_sample exits if and only if a WM_QUIT
\* message is retrieved: WM_DESTROY posts the quit message, every message
\* retrieved before WM_QUIT is dispatched, the loop breaks right after
\* WM_QUIT is retrieved, init_sample then returns Ok, and no update() or
\* render() is invoked after the loop has exited.
C27_ExitsOnQuitOnly ==
    /\ [](C27_Exited)
    /\ [][C27_LoopSteps]_vars

\* the loop has exited after two frames
C27_Witness ==
    /\ pc = "done"
    /\ message = "WM_QUIT"
    /\ frames = 2
    /\ resources = "Some"

C28_Cleared == quit_posted => ~user_data

C28_CallbackWindow ==
    Delivered =>
        /\ callbacks' # <<>> => user_data /\ ~quit_posted
        /\ ~user_data /\ ~quit_posted /\ message' # "WM_CREATE" =>
              callbacks' = <<>> /\ forwarded'
        /\ message' = "WM_CREATE" => user_data'

\* C28: the window's back-pointer to the sample is installed at WM_CREATE and
\* cleared at WM_DESTROY: sample callbacks are invoked only for messages that
\* arrive after WM_CREATE and before WM_DESTROY; messages arriving while the
\* pointer is null go to DefWindowProc without dereferencing it, and no
\* callback reaches the sample after WM_DESTROY has been processed.
C28_PointerClearedAtDestroy ==
    /\ [][C28_CallbackWindow]_vars
    /\ [](C28_Cleared)

\* everything but the record of the message just processed
C29_SampleAndDevice ==
    <<pc, user_data, quit_posted, resources, frame_index, fence_value,
      fence_event, rtv_descriptor_size, rtv_heap, render_targets, command_list,
      swap_chain, rpc, fence_local, frames, a0, signalLog, calls, bindCalls,
      failed, vertex_buffer, vbv, pso, viewport, scissor_rect, root_signature,
      dbg, bootVars, gpuVars>>

C29_NoOpStep ==
    (RenderInvoked /\ resources # "Some") =>
        /\ earlyRenders' = earlyRenders + 1
        /\ UNCHANGED C29_SampleAndDevice
        /\ rpc' = "none"
        /\ pc' # "panicked"
        /\ gpuQueue' = <<>>
        /\ signalLog' = <<>>
        /\ swap_chain'.BufferCount = 0

\* C29: render() on a Sample whose bind_to_window has not succeeded
\* (resources is None) is a no-op: it records nothing, submits nothing,
\* presents nothing, signals no fence, does not block, does not panic, and
\* leaves the sample unchanged.
C29_UnboundRenderIsNoOp ==
    /\ [][C29_NoOpStep]_vars
    /\ [](resources # "Some" => rpc = "none" /\ frames = 0 /\ gpuQueue = <<>>)

\* a WM_PAINT has called render() before bind_to_window
C29_Witness ==
    /\ resources # "Some"
    /\ earlyRenders = 1
    /\ message = "WM_PAINT"
    /\ callbacks = <<"update", "render">>
    /\ pc = "creating"

\* what bind_to_window chose once and for all
C30_BindTimeState ==
    <<viewport, scissor_rect, vbv, rtv_descriptor_size, pso, root_signature,
      render_targets>>

C30_RenderStep ==
    resources = "Some" =>
        /\ UNCHANGED C30_BindTimeState
        /\ rpc \in PopulateSteps => UNCHANGED <<frame_index, fence_value>>
        /\ fence_value' # fence_value =>
              /\ rpc = "signal"
              /\ fence_value' = fence_value + 1
        /\ frame_index' # frame_index =>
              /\ rpc = "refresh"
              /\ frame_index' = swap_chain.index

\* C30: recording a frame (populate_command_list) leaves frame_index and
\* fence_value unchanged; within render() only wait_for_previous_frame
\* modifies them (fence_value by exactly +1, frame_index by re-reading the
\* swap chain), and no render() ever changes viewport, scissor_rect, vbv,
\* rtv_descriptor_size, the PSO, the root signature or the set of render
\* targets chosen at bind time.
C30_FrameLeavesBindStateAlone ==
    /\ [][C30_RenderStep]_vars
    /\ [](resources = "Some" /\ rpc \in {"check", "set_event", "wait", "refresh"}
            => fence_value = fence_local + 1)
    /\ [](resources = "Some" /\ rpc = "none" /\ pc # "panicked"
            => fence_value = BoundFenceValue + frames)

\* the second frame has advanced fence_value and is about to re-read the index
C30_Witness ==
    /\ resources = "Some"
    /\ rpc = "refresh"
    /\ frames = 2
    /\ fence_value = 3
    /\ frame_index # swap_chain.index
====
